---- MODULE Spec2Model ----
(***************************************************************************)
(* Device-communication core of homebridge-create-ceiling-fan:             *)
(*   - Mutex (settings.ts): lock with a FIFO waiting queue                 *)
(*   - CreateCeilingFanAccessory (platformAccessory.ts): cached device     *)
(*     state, status poller, command dispatcher, speed debounce, get/set   *)
(*     handlers.                                                           *)
(*                                                                         *)
(* Execution model: Node.js runs one macrotask (a timer callback, an       *)
(* incoming HomeKit request, the settling of a transport promise) to       *)
(* completion together with every promise continuation it makes runnable.  *)
(* Each action below is one such macrotask: the synchronous code of the    *)
(* handler plus the continuations of every `await` whose promise is        *)
(* already resolved when the synchronous code ends (in particular the      *)
(* continuation after `await this.mutex.lock()` of a caller that has just  *)
(* been granted the lock, which goes on to call connect()).                *)
(*                                                                         *)
(* An asynchronous invocation that is suspended is a "task" record:        *)
(*   kind      "poll" (getDeviceStatus) or "set" (setDeviceValue)          *)
(*   pc        "waitLock"   suspended in `await this.mutex.lock()`         *)
(*             "connecting" suspended in the await of connect()            *)
(*             "operating"  suspended in the await of get() / set()        *)
(*   dps,value the arguments of setDeviceValue (0, "" for a poll)          *)
(*   timedOut  the race in setDeviceValueWithTimeout was already settled   *)
(*             by its timer (the caller got the failure)                   *)
(*   granted   the task owns a release function it has not yet invoked     *)
(* The closures in Mutex.waitingQueue are exactly the tasks at "waitLock". *)
(***************************************************************************)
EXTENDS Integers, Sequences, FiniteSets, Bags, TLC

\* ------------------------------------------------------------------ bounds
\* Most command dispatches (setDeviceValue invocations) alive at once.
MaxSetTasks == 2
\* Most poll timers that are pending but no longer referenced by
\* getDeviceStatusTimer.
MaxStrayTimers == 1
\* Most transport operations still outstanding after their waiter timed out.
MaxLateOps == 1
\* Most slider inputs in one burst (inputs that each find the debounce timer
\* of the previous one still pending).
MaxBurst == 2
\* Configured devices.
MaxDevices == 2

\* ------------------------------------------------------- program constants
getDeviceStatusFastRetryPeriod == 1000
getDeviceStatusPeriod == 10000
getDeviceStatusConnectTimeout == 3000
getDeviceStatusReadTimeout == 1000
setDeviceStatusTimeout == 2500
fanRotationSpeedNormalized == <<10, 30, 50, 70, 90, 100>>

\* Inputs of the model: slider values fed to the speed set handler, and the
\* data point objects the device answers a status read with.
RawInputs == {0, 19, 58}
AllRawInputs == 0 .. 100
ActiveInputs == {"INACTIVE"}
DirectionInputs == {"CLOCKWISE"}
LightInputs == {FALSE}
Statuses ==
    { [d60 |-> TRUE,  d62 |-> 3, d63 |-> "forward", d20 |-> FALSE],
      [d60 |-> FALSE, d62 |-> 6, d63 |-> "reverse", d20 |-> TRUE] }
DeviceIds == {"a", "b", "c"}
Getters == {"Active", "RotationSpeed", "RotationDirection", "On"}

VARIABLES
    isLocked,                  \* Mutex.isLocked
    waitingQueue,              \* Mutex.waitingQueue: the tasks at "waitLock"
    running,                   \* tasks past `await this.mutex.lock()`
    isGetStatusInProgress,
    state,                     \* the device state cache
    getDeviceStatusTimer,      \* period of the pending timer the handle names, 0 if none
    strayPollTimers,           \* bag of pending poll timers no handle names
    fanSetSpeedDebounceTimer,  \* adjustedValue of the pending timer the handle names, 0 if none
    strayDebounceTimers,       \* bag of pending debounce timers no handle names
    lateOps,                   \* transport operations outstanding after a timeout
    lastPoll,                  \* history: outcome of the last completed poll
    speedBurst,                \* history: the raw inputs of the latest burst of slider
                               \* inputs (an input 0 that found a timer pending ends it)
    ret,                       \* what the last step delivered to a HomeKit caller
    deviceCommunicator,        \* the TuyAPI object the field refers to (1: the constructor's)
    transport,                 \* the deviceCommunicator methods the last step called, in order
    qRaw, qLevel, qSpeed,      \* input and outputs of the quantization functions
    dirInput,                  \* the direction HomeKit last asked for ("" if none)
    dirWritten,                \* data point 63 as last written to the device ("" if never)
    raceMs,                    \* waitForPromiseWithTimeout: its argument ms
    raceClock,                 \* milliseconds since the call
    racePromise,               \* the promise passed in
    raceTimer,                 \* the timer the call has set
    raceOutcome,               \* the promise the call returned
    config,                    \* platform: config.devices, as device ids
    restorable,                \* UUIDs of the accessories Homebridge has yet to restore
    accessories,               \* platform.accessories: the UUIDs restored
    discoveredCacheUUIDs,
    registered,                \* UUIDs passed to api.registerPlatformAccessories, in order
    updated,                   \* UUIDs passed to api.updatePlatformAccessories, in order
    unregistered,              \* UUIDs passed to api.unregisterPlatformAccessories
    handlers,                  \* UUIDs a CreateCeilingFanAccessory was constructed for, in order
    launched                   \* didFinishLaunching was fired

vars == << isLocked, waitingQueue, running, isGetStatusInProgress, state,
           getDeviceStatusTimer, strayPollTimers, fanSetSpeedDebounceTimer,
           strayDebounceTimers, lateOps, lastPoll, speedBurst, ret,
           deviceCommunicator, transport, qRaw, qLevel, qSpeed, dirInput, dirWritten,
           raceMs, raceClock, racePromise, raceTimer, raceOutcome, config, restorable,
           accessories, discoveredCacheUUIDs, registered, updated, unregistered,
           handlers, launched >>

mutexVars == << isLocked, waitingQueue >>
pollTimerVars == << getDeviceStatusTimer, strayPollTimers >>
debounceVars == << fanSetSpeedDebounceTimer, strayDebounceTimers, speedBurst >>
quantVars == << qRaw, qLevel, qSpeed >>
directionVars == << dirInput, dirWritten >>
raceVars == << raceMs, raceClock, racePromise, raceTimer, raceOutcome >>
platformVars == << config, restorable, accessories, discoveredCacheUUIDs, registered,
                   updated, unregistered, handlers, launched >>
\* What the steps of one accessory leave alone.
sideVars == << quantVars, directionVars, raceVars, platformVars >>
accessoryVars == << mutexVars, running, isGetStatusInProgress, state, pollTimerVars,
                    debounceVars, lateOps, lastPoll, ret, deviceCommunicator, transport >>

\* ----------------------------------------------------------------- helpers
RemoveAt(s, i) == SubSeq(s, 1, i - 1) \o SubSeq(s, i + 1, Len(s))

IndexOf(s, x) ==
    IF \E i \in 1 .. Len(s) : s[i] = x
    THEN (CHOOSE i \in 1 .. Len(s) : s[i] = x /\ \A j \in 1 .. i - 1 : s[j] # x) - 1
    ELSE -1

NoRet == [op |-> "none", status |-> "none", val |-> ""]
\* A promise that has not settled.
PendingPromise == [status |-> "pending", value |-> ""]
\* The settling of a promise that lost its race: nobody receives it.
Disregarded == [op |-> "none", status |-> "disregarded", val |-> ""]

NumSetTasks == Len(SelectSeq(waitingQueue, LAMBDA t : t.kind = "set"))
               + Len(SelectSeq(running, LAMBDA t : t.kind = "set"))
NumPollTasks == Len(SelectSeq(waitingQueue, LAMBDA t : t.kind = "poll"))
                + Len(SelectSeq(running, LAMBDA t : t.kind = "poll"))

\* An invocation of getDeviceStatus or setDeviceValue at `await
\* this.mutex.lock()`.  History: `ahead` counts the dispatches issued before
\* this one that have not ended yet.
PollTask == [kind |-> "poll", pc |-> "waitLock", dps |-> 0, value |-> "",
             timedOut |-> FALSE, granted |-> FALSE, ahead |-> 0]
SetTask(dps, value) == [kind |-> "set", pc |-> "waitLock", dps |-> dps, value |-> value,
                        timedOut |-> FALSE, granted |-> FALSE, ahead |-> NumSetTasks]

\* The tasks q once the dispatch f has ended.
AfterEndOf(f, q) ==
    [k \in 1 .. Len(q) |->
        IF q[k].kind = "set" /\ q[k].ahead > f.ahead
        THEN [q[k] EXCEPT !.ahead = @ - 1] ELSE q[k]]

\* ------------------------------------------------------------------- Mutex
\* Fault variants of the Mutex methods, used to show that the properties
\* below depend on them: a lock() that never tests isLocked, an unlock() that
\* serves the newest waiter, an unlock() that marks the lock free while
\* handing it over.
MutexLockUnconditional(mx, t) ==
    [isLocked |-> TRUE, waitingQueue |-> mx.waitingQueue, granted |-> <<t>>]

MutexUnlockNewestFirst(mx) ==
    IF Len(mx.waitingQueue) > 0
    THEN [isLocked |-> TRUE,
          waitingQueue |-> SubSeq(mx.waitingQueue, 1, Len(mx.waitingQueue) - 1),
          granted |-> <<mx.waitingQueue[Len(mx.waitingQueue)]>>]
    ELSE [isLocked |-> FALSE, waitingQueue |-> mx.waitingQueue, granted |-> <<>>]

MutexUnlockMarksFree(mx) ==
    IF Len(mx.waitingQueue) > 0
    THEN [isLocked |-> FALSE, waitingQueue |-> Tail(mx.waitingQueue),
          granted |-> <<Head(mx.waitingQueue)>>]
    ELSE [isLocked |-> FALSE, waitingQueue |-> mx.waitingQueue, granted |-> <<>>]

\* Fault variant: a caller that finds the mutex locked is put at the front
\* of the queue (unshift instead of push).
MutexLockQueuesAtFront(mx, t) ==
    IF ~mx.isLocked
    THEN [isLocked |-> TRUE, waitingQueue |-> mx.waitingQueue, granted |-> <<t>>]
    ELSE [isLocked |-> mx.isLocked, waitingQueue |-> <<t>> \o mx.waitingQueue,
          granted |-> <<>>]

\* Mutex.lock(): the executor of the returned promise, run synchronously.
\* `granted` holds the caller when its promise was resolved in the call.
MutexLock(mx, t) ==
    IF ~mx.isLocked
    THEN [isLocked |-> TRUE, waitingQueue |-> mx.waitingQueue, granted |-> <<t>>]
    ELSE [isLocked |-> mx.isLocked, waitingQueue |-> Append(mx.waitingQueue, t),
          granted |-> <<>>]

\* Mutex.unlock(): hand the lock to the head of the queue (its acquireLock
\* sets isLocked and resolves its promise), or mark the lock free.
MutexUnlock(mx) ==
    IF Len(mx.waitingQueue) > 0
    THEN [isLocked |-> TRUE, waitingQueue |-> Tail(mx.waitingQueue),
          granted |-> <<Head(mx.waitingQueue)>>]
    ELSE [isLocked |-> FALSE, waitingQueue |-> mx.waitingQueue, granted |-> <<>>]

Mx == [isLocked |-> isLocked, waitingQueue |-> waitingQueue]

\* The continuation after `const releaseMutex = await this.mutex.lock()`:
\* the task owns the release function and calls deviceCommunicator.connect().
Resume(t) == [t EXCEPT !.pc = "connecting", !.granted = TRUE]
ResumeAll(ts) == [i \in 1 .. Len(ts) |-> Resume(ts[i])]
\* The connect() calls of the callers that were resumed.
ConnectCalls(ts) == [i \in 1 .. Len(ts) |-> "connect"]

\* ------------------------------------------------------------------ timers
\* A timer object of Node.js as the model sees it: `handle` is the payload of
\* the pending timer the member variable refers to (0 when that timer fired,
\* was cleared, or was never set); `stray` holds the pending timers the
\* member variable no longer refers to.
clearTimeout(tm) == [handle |-> 0, stray |-> tm.stray]

setTimeout(tm, payload) ==
    [handle |-> payload,
     stray  |-> IF tm.handle # 0 THEN tm.stray (+) SetToBag({tm.handle}) ELSE tm.stray]

PollTimers == [handle |-> getDeviceStatusTimer, stray |-> strayPollTimers]
DebounceTimers == [handle |-> fanSetSpeedDebounceTimer, stray |-> strayDebounceTimers]

\* The pending timers of a timer state, each with what remains once it fired.
Pending(tm) ==
    (IF tm.handle # 0
     THEN {[payload |-> tm.handle, rest |-> [handle |-> 0, stray |-> tm.stray]]}
     ELSE {})
    \cup
    {[payload |-> x, rest |-> [handle |-> tm.handle, stray |-> tm.stray (-) SetToBag({x})]]
       : x \in BagToSet(tm.stray)}

\* ------------------------------------------------- cache and its projections
updateDeviceState(st, status) ==
    [st EXCEPT !.fanOn = status.d60,
               !.fanSpeed = status.d62,
               !.fanRotationClockwise = IF status.d63 = "forward" THEN FALSE ELSE TRUE,
               !.lightOn = status.d20]

fanActiveValueToCharacteristicValue(st) ==
    IF st.fanOn THEN "ACTIVE" ELSE "INACTIVE"

\* Fault variant: the array is indexed with fanSpeed instead of fanSpeed - 1.
fanRotationSpeedValueOffByOne(st) ==
    IF st.fanSpeed + 1 <= Len(fanRotationSpeedNormalized)
    THEN ToString(fanRotationSpeedNormalized[st.fanSpeed + 1])
    ELSE "undefined"

fanRotationSpeedValueToCharacteristicValue(st) ==
    ToString(fanRotationSpeedNormalized[(st.fanSpeed - 1) + 1])

fanRotationDirectionValueToCharacteristicValue(st) ==
    IF st.fanRotationClockwise THEN "CLOCKWISE" ELSE "COUNTER_CLOCKWISE"

lightOnValueToCharacteristicValue(st) ==
    IF st.lightOn THEN "true" ELSE "false"

\* Fault variant: the validity of the cache is not tested.
throwErrorNever(st) == FALSE

\* throwErrorIfDeviceUnresponsive: TRUE when the handler throws.
throwErrorIfDeviceUnresponsive(st) == ~st.isValid

CharacteristicValue(g, st) ==
    CASE g = "Active"            -> fanActiveValueToCharacteristicValue(st)
      [] g = "RotationSpeed"     -> fanRotationSpeedValueToCharacteristicValue(st)
      [] g = "RotationDirection" -> fanRotationDirectionValueToCharacteristicValue(st)
      [] g = "On"                -> lightOnValueToCharacteristicValue(st)

\* What a get handler delivers, after its getDeviceStatus() call returned.
GetterResult(g, st) ==
    IF throwErrorIfDeviceUnresponsive(st)
    THEN [op |-> g, status |-> "SERVICE_COMMUNICATION_FAILURE", val |-> ""]
    ELSE [op |-> g, status |-> "value", val |-> CharacteristicValue(g, st)]

\* ------------------------------------------------------------ quantization
\* Fault variant: the range tests include their upper limits.
adjustInputRotationSpeedInclusive(value) ==
    IF value = 0 THEN 0
    ELSE IF value <= 20 THEN fanRotationSpeedNormalized[1]
    ELSE IF value <= 40 THEN fanRotationSpeedNormalized[2]
    ELSE IF value <= 60 THEN fanRotationSpeedNormalized[3]
    ELSE IF value <= 80 THEN fanRotationSpeedNormalized[4]
    ELSE IF value <= 95 THEN fanRotationSpeedNormalized[5]
    ELSE fanRotationSpeedNormalized[6]

adjustInputRotationSpeed(value) ==
    IF value = 0 THEN 0
    ELSE IF value < 20 THEN fanRotationSpeedNormalized[1]
    ELSE IF value < 40 THEN fanRotationSpeedNormalized[2]
    ELSE IF value < 60 THEN fanRotationSpeedNormalized[3]
    ELSE IF value < 80 THEN fanRotationSpeedNormalized[4]
    ELSE IF value < 95 THEN fanRotationSpeedNormalized[5]
    ELSE fanRotationSpeedNormalized[6]

\* Number(value) of the characteristic value HomeKit passes in.
Number(value) == CHOOSE n \in AllRawInputs : ToString(n) = value

\* Fault variant: the index in the table is taken as the device speed.
dpsRotationSpeedZeroBased(adjustedValue) == IndexOf(fanRotationSpeedNormalized, adjustedValue)

\* The body of the debounce timer callback: the device speed it dispatches.
dpsRotationSpeed(adjustedValue) == IndexOf(fanRotationSpeedNormalized, adjustedValue) + 1

\* ---------------------------------------------------------- getDeviceStatus
\* Fault variant: isGetStatusInProgress is not tested.
ReadMayStartAlways(inProgress) == TRUE

\* The test that lets a getDeviceStatus() call start a read cycle.
ReadMayStart(inProgress) == ~inProgress

\* Fault variant: the communication error is ignored.
nextGetStatusPeriodAlwaysNormal(isCommunicationError) == getDeviceStatusPeriod

\* The period of the timer set at the end of getDeviceStatus.
nextGetStatusPeriod(isCommunicationError) ==
    IF isCommunicationError THEN getDeviceStatusFastRetryPeriod ELSE getDeviceStatusPeriod

\* A call of getDeviceStatus(), up to its first suspension or its return;
\* `tm` is the state of the poll timers at the call.
\* Fault variant: a call that finds a read in progress returns without
\* setting the timer.
getDeviceStatusSkipReturnsEarly(tm) ==
    LET cleared == clearTimeout(tm) IN
    IF ReadMayStart(isGetStatusInProgress)
    THEN LET r == MutexLock(Mx, PollTask) IN
         /\ isGetStatusInProgress' = TRUE
         /\ isLocked' = r.isLocked
         /\ waitingQueue' = r.waitingQueue
         /\ running' = running \o ResumeAll(r.granted)
         /\ transport' = ConnectCalls(r.granted)
         /\ getDeviceStatusTimer' = cleared.handle
         /\ strayPollTimers' = cleared.stray
    ELSE /\ getDeviceStatusTimer' = cleared.handle
         /\ strayPollTimers' = cleared.stray
         /\ transport' = <<>>
         /\ UNCHANGED << isGetStatusInProgress, isLocked, waitingQueue, running >>

getDeviceStatus(tm) ==
    LET cleared == clearTimeout(tm) IN
    IF ReadMayStart(isGetStatusInProgress)
    THEN LET r == MutexLock(Mx, PollTask) IN
         /\ isGetStatusInProgress' = TRUE
         /\ isLocked' = r.isLocked
         /\ waitingQueue' = r.waitingQueue
         /\ running' = running \o ResumeAll(r.granted)
         /\ transport' = ConnectCalls(r.granted)
         /\ getDeviceStatusTimer' = cleared.handle
         /\ strayPollTimers' = cleared.stray
    ELSE LET set == setTimeout(cleared, nextGetStatusPeriod(FALSE)) IN
         /\ BagCardinality(cleared.stray) < MaxStrayTimers
         /\ getDeviceStatusTimer' = set.handle
         /\ strayPollTimers' = set.stray
         /\ transport' = <<>>
         /\ UNCHANGED << isGetStatusInProgress, isLocked, waitingQueue, running >>

\* Fault variant: the catch block leaves isValid as it is.
CacheAfterReadKeepsValidity(st, ok, status) ==
    IF ok THEN [updateDeviceState(st, status) EXCEPT !.isValid = TRUE] ELSE st

\* Fault variant: the catch block resets the cache to its initial content.
CacheAfterReadResetsOnFailure(st, ok, status) ==
    IF ok THEN [updateDeviceState(st, status) EXCEPT !.isValid = TRUE]
    ELSE [fanOn |-> FALSE, fanSpeed |-> 1, fanRotationClockwise |-> FALSE,
          lightOn |-> FALSE, isValid |-> FALSE]

\* The cache after the try block (ok) or the catch block of getDeviceStatus.
CacheAfterRead(st, ok, status) ==
    IF ok THEN [updateDeviceState(st, status) EXCEPT !.isValid = TRUE]
    ELSE [st EXCEPT !.isValid = FALSE]

\* Fault variant: releaseMutex() is the last statement of the try block
\* instead of the finally block.
PollFinishReleasesInTry(i, ok, status) ==
    LET r == IF ok THEN MutexUnlock(Mx)
             ELSE [isLocked |-> isLocked, waitingQueue |-> waitingQueue, granted |-> <<>>]
        set == setTimeout(PollTimers, nextGetStatusPeriod(~ok))
    IN  /\ state' = CacheAfterRead(state, ok, status)
        /\ isGetStatusInProgress' = FALSE
        /\ isLocked' = r.isLocked
        /\ waitingQueue' = r.waitingQueue
        /\ running' = RemoveAt(running, i) \o ResumeAll(r.granted)
        /\ transport' = (IF ok THEN <<>> ELSE <<"disconnect">>) \o ConnectCalls(r.granted)
        /\ getDeviceStatusTimer' = set.handle
        /\ strayPollTimers' = set.stray
        /\ lastPoll' = IF ok THEN "ok" ELSE "failed"
        /\ ret' = NoRet

\* The end of getDeviceStatus for the poll at running[i]: the try block's
\* last statements or the catch block, the finally block, and the timer.
PollFinish(i, ok, status) ==
    LET r == MutexUnlock(Mx)
        set == setTimeout(PollTimers, nextGetStatusPeriod(~ok))
    IN  /\ state' = CacheAfterRead(state, ok, status)
        /\ isGetStatusInProgress' = FALSE
        /\ isLocked' = r.isLocked
        /\ waitingQueue' = r.waitingQueue
        /\ running' = RemoveAt(running, i) \o ResumeAll(r.granted)
        /\ transport' = (IF ok THEN <<>> ELSE <<"disconnect">>) \o ConnectCalls(r.granted)
        /\ getDeviceStatusTimer' = set.handle
        /\ strayPollTimers' = set.stray
        /\ lastPoll' = IF ok THEN "ok" ELSE "failed"
        /\ ret' = NoRet

IsPollAt(i, pcs) == running[i].kind = "poll" /\ running[i].pc \in pcs
IsSetAt(i, pcs) == running[i].kind = "set" /\ running[i].pc \in pcs

\* A poll timer fires and calls getDeviceStatus().
PollTimerFire ==
    /\ \E t \in Pending(PollTimers) : getDeviceStatus(t.rest)
    /\ ret' = NoRet
    /\ UNCHANGED << state, debounceVars, lateOps, lastPoll, sideVars, deviceCommunicator >>

\* A HomeKit get request: handle*Get.
HandleGet(g) ==
    /\ getDeviceStatus(PollTimers)
    /\ ret' = GetterResult(g, state)
    /\ UNCHANGED << state, debounceVars, lateOps, lastPoll, sideVars, deviceCommunicator >>

\* connect() of a poll resolves before its timeout: get() is called.
PollConnected(i) ==
    /\ IsPollAt(i, {"connecting"})
    /\ running' = [running EXCEPT ![i].pc = "operating"]
    /\ transport' = <<"get">>
    /\ ret' = NoRet
    /\ UNCHANGED << mutexVars, isGetStatusInProgress, state, pollTimerVars,
                    debounceVars, lateOps, lastPoll, sideVars, deviceCommunicator >>

\* get() of a poll resolves before its timeout with a status.
PollRead(i, status) ==
    /\ IsPollAt(i, {"operating"})
    /\ PollFinish(i, TRUE, status)
    /\ UNCHANGED << debounceVars, lateOps, sideVars, deviceCommunicator >>

\* connect() or get() of a poll rejects before its timeout.
PollRejected(i) ==
    /\ IsPollAt(i, {"connecting", "operating"})
    /\ PollFinish(i, FALSE, CHOOSE s \in Statuses : TRUE)
    /\ UNCHANGED << debounceVars, lateOps, sideVars, deviceCommunicator >>

\* Fault variant: only connect() is raced against a timeout, get() is awaited
\* bare.
PollTimeoutConnectOnly(i, late) ==
    /\ IsPollAt(i, {"connecting"})
    /\ late => lateOps < MaxLateOps
    /\ PollFinish(i, FALSE, CHOOSE s \in Statuses : TRUE)
    /\ lateOps' = IF late THEN lateOps + 1 ELSE lateOps
    /\ UNCHANGED << debounceVars, sideVars, deviceCommunicator >>

\* The timer of waitForPromiseWithTimeout fires before connect() or get() of
\* a poll settles.  The operation is not cancelled: with `late` it settles
\* afterwards, otherwise it never does.
PollTimeout(i, late) ==
    /\ IsPollAt(i, {"connecting", "operating"})
    /\ late => lateOps < MaxLateOps
    /\ PollFinish(i, FALSE, CHOOSE s \in Statuses : TRUE)
    /\ lateOps' = IF late THEN lateOps + 1 ELSE lateOps
    /\ UNCHANGED << debounceVars, sideVars, deviceCommunicator >>

\* Fault variant: the late result is still applied to the cache.
LateSettleUpdatesCache ==
    /\ lateOps > 0
    /\ lateOps' = lateOps - 1
    /\ state' = [state EXCEPT !.isValid = TRUE]
    /\ ret' = Disregarded
    /\ transport' = <<>>
    /\ UNCHANGED << mutexVars, running, isGetStatusInProgress, pollTimerVars,
                    debounceVars, lastPoll, sideVars, deviceCommunicator >>

\* A transport operation whose waiter timed out settles; nobody listens.
LateSettle ==
    /\ lateOps > 0
    /\ lateOps' = lateOps - 1
    /\ ret' = Disregarded
    /\ transport' = <<>>
    /\ UNCHANGED << mutexVars, running, isGetStatusInProgress, state, pollTimerVars,
                    debounceVars, lastPoll, sideVars, deviceCommunicator >>

\* ------------------------------------------------------- command dispatcher
\* The HomeKit set request whose handler awaits a dispatch of data point dps;
\* the speed command (62) is awaited by the debounce timer callback only.
AwaitedBy(dps) ==
    CASE dps = 60 -> "setActive"
      [] dps = 63 -> "setRotationDirection"
      [] dps = 20 -> "setOn"
      [] OTHER    -> "none"

\* Fault variant: the catch block of setDeviceValueWithTimeout does not throw.
DeliveredSwallowsTimeout(dps, status) ==
    IF AwaitedBy(dps) = "none" THEN NoRet
    ELSE [op |-> AwaitedBy(dps), status |-> "ok", val |-> ""]

\* What the settling of the race in setDeviceValueWithTimeout delivers.
Delivered(dps, status) ==
    IF AwaitedBy(dps) = "none" THEN NoRet
    ELSE [op |-> AwaitedBy(dps), status |-> status, val |-> ""]

\* Fault variant: setDeviceValue calls connect() without taking the lock.
setDeviceValueWithoutLock(dps, value) ==
    /\ NumSetTasks < MaxSetTasks
    /\ running' = Append(running, [SetTask(dps, value) EXCEPT !.pc = "connecting"])
    /\ transport' = <<"connect">>
    /\ UNCHANGED << isLocked, waitingQueue >>

\* setDeviceValueWithTimeout(dps, value) up to the first suspension of
\* setDeviceValue: the call of this.mutex.lock() and, when the lock is
\* granted at once, the call of connect().
setDeviceValueWithTimeout(dps, value) ==
    LET r == MutexLock(Mx, SetTask(dps, value)) IN
    /\ NumSetTasks < MaxSetTasks
    /\ isLocked' = r.isLocked
    /\ waitingQueue' = r.waitingQueue
    /\ running' = running \o ResumeAll(r.granted)
    /\ transport' = ConnectCalls(r.granted)

\* The finally block of setDeviceValue for the task at running[i], and the
\* settling of the race in setDeviceValueWithTimeout if its timer has not fired.
SetFinish(i, rejected) ==
    LET r == MutexUnlock(Mx) IN
    /\ isLocked' = r.isLocked
    /\ waitingQueue' = AfterEndOf(running[i], r.waitingQueue)
    /\ running' = AfterEndOf(running[i], RemoveAt(running, i) \o ResumeAll(r.granted))
    /\ transport' = (IF rejected THEN <<"disconnect">> ELSE <<>>) \o ConnectCalls(r.granted)
    /\ ret' = IF running[i].timedOut THEN Disregarded ELSE Delivered(running[i].dps, "ok")

\* connect() of a dispatch resolves: set() is called.
SetConnected(i) ==
    /\ IsSetAt(i, {"connecting"})
    /\ running' = [running EXCEPT ![i].pc = "operating"]
    /\ transport' = <<"set">>
    /\ ret' = NoRet
    /\ UNCHANGED << mutexVars, isGetStatusInProgress, state, pollTimerVars,
                    debounceVars, lateOps, lastPoll, sideVars, deviceCommunicator >>

\* Fault variant: a written value is also stored in the cache.
SetWrittenUpdatesCache(i) ==
    /\ IsSetAt(i, {"operating"})
    /\ SetFinish(i, FALSE)
    /\ state' = CASE running[i].dps = 60 -> [state EXCEPT !.fanOn = (running[i].value = "true")]
                  [] running[i].dps = 20 -> [state EXCEPT !.lightOn = (running[i].value = "true")]
                  [] OTHER -> state
    /\ UNCHANGED << isGetStatusInProgress, pollTimerVars, debounceVars,
                    lateOps, lastPoll, sideVars, deviceCommunicator >>

\* set() of a dispatch resolves.
SetWritten(i) ==
    /\ IsSetAt(i, {"operating"})
    /\ SetFinish(i, FALSE)
    /\ UNCHANGED << isGetStatusInProgress, state, pollTimerVars, debounceVars,
                    lateOps, lastPoll, sideVars, deviceCommunicator >>

\* Fault variant: the catch block of setDeviceValue marks the cache invalid.
SetRejectedInvalidatesCache(i) ==
    /\ IsSetAt(i, {"connecting", "operating"})
    /\ SetFinish(i, TRUE)
    /\ state' = [state EXCEPT !.isValid = FALSE]
    /\ UNCHANGED << isGetStatusInProgress, pollTimerVars, debounceVars,
                    lateOps, lastPoll, sideVars, deviceCommunicator >>

\* connect() or set() of a dispatch rejects: the catch block disconnects and
\* swallows the error.
SetRejected(i) ==
    /\ IsSetAt(i, {"connecting", "operating"})
    /\ SetFinish(i, TRUE)
    /\ UNCHANGED << isGetStatusInProgress, state, pollTimerVars, debounceVars,
                    lateOps, lastPoll, sideVars, deviceCommunicator >>

\* The timer of the race in setDeviceValueWithTimeout fires while the
\* dispatch is suspended (running[i], or waitingQueue[-i] for i < 0): the
\* caller gets the failure, the dispatch itself goes on.
SetTimeout(i) ==
    /\ ret' = Delivered((IF i > 0 THEN running[i] ELSE waitingQueue[-i]).dps,
                        "SERVICE_COMMUNICATION_FAILURE")
    /\ IF i > 0
       THEN /\ running[i].kind = "set" /\ ~running[i].timedOut
            /\ running' = [running EXCEPT ![i].timedOut = TRUE]
            /\ UNCHANGED waitingQueue
       ELSE /\ waitingQueue[-i].kind = "set" /\ ~waitingQueue[-i].timedOut
            /\ waitingQueue' = [waitingQueue EXCEPT ![-i].timedOut = TRUE]
            /\ UNCHANGED running
    /\ transport' = <<>>
    /\ UNCHANGED << isLocked, isGetStatusInProgress, state, pollTimerVars,
                    debounceVars, lateOps, lastPoll, sideVars, deviceCommunicator >>

SuspendedAt == (1 .. Len(running)) \cup {-j : j \in 1 .. Len(waitingQueue)}

\* ------------------------------------------------------------- set handlers
\* Fault variant: the power handler writes `true` whatever the request.
handleFanActiveStateSetAlwaysOn(value) ==
    /\ setDeviceValueWithTimeout(60, "true")
    /\ ret' = NoRet
    /\ UNCHANGED << isGetStatusInProgress, state, pollTimerVars, debounceVars,
                    lateOps, lastPoll, sideVars, deviceCommunicator >>

handleFanActiveStateSet(value) ==
    /\ setDeviceValueWithTimeout(60, IF value = "ACTIVE" THEN "true" ELSE "false")
    /\ ret' = NoRet
    /\ UNCHANGED << isGetStatusInProgress, state, pollTimerVars, debounceVars,
                    lateOps, lastPoll, sideVars, deviceCommunicator >>

\* Fault variant: the two device values are swapped.
dpsRotationDirectionSwapped(value) ==
    IF value = "COUNTER_CLOCKWISE" THEN "reverse" ELSE "forward"

\* The value of data point 63 the direction set handler dispatches.
dpsRotationDirection(value) ==
    IF value = "COUNTER_CLOCKWISE" THEN "forward" ELSE "reverse"

handleFanRotationDirectionSet(value) ==
    /\ setDeviceValueWithTimeout(63, dpsRotationDirection(value))
    /\ ret' = NoRet
    /\ UNCHANGED << isGetStatusInProgress, state, pollTimerVars, debounceVars,
                    lateOps, lastPoll, sideVars, deviceCommunicator >>

handleLightOnSet(value) ==
    /\ setDeviceValueWithTimeout(20, IF value THEN "true" ELSE "false")
    /\ ret' = NoRet
    /\ UNCHANGED << isGetStatusInProgress, state, pollTimerVars, debounceVars,
                    lateOps, lastPoll, sideVars, deviceCommunicator >>

\* Fault variant: an input that quantizes to 0 leaves the pending timer alone.
DebounceAfterInputZeroKeepsTimer(tm, value) ==
    LET adjustedValue == adjustInputRotationSpeed(value)
        cleared == IF tm.handle # 0 THEN clearTimeout(tm) ELSE tm
    IN  IF adjustedValue # 0 THEN setTimeout(cleared, adjustedValue) ELSE tm

\* Fault variant: the pending debounce timer is not cleared.
DebounceAfterInputNoClear(tm, value) ==
    LET adjustedValue == adjustInputRotationSpeed(value)
    IN  IF adjustedValue # 0 THEN setTimeout(tm, adjustedValue) ELSE tm

\* The timer state handleFanRotationSpeedSet leaves for a raw input.
DebounceAfterInput(tm, value) ==
    LET adjustedValue == adjustInputRotationSpeed(value)
        cleared == IF tm.handle # 0 THEN clearTimeout(tm) ELSE tm
    IN  IF adjustedValue # 0 THEN setTimeout(cleared, adjustedValue) ELSE cleared

handleFanRotationSpeedSet(value) ==
    LET tm == DebounceAfterInput(DebounceTimers, value) IN
    /\ fanSetSpeedDebounceTimer' = tm.handle
    /\ strayDebounceTimers' = tm.stray
    /\ speedBurst' = IF Pending(DebounceTimers) = {}
                      THEN (IF value = 0 THEN <<>> ELSE <<value>>)
                      ELSE Append(speedBurst, value)
    /\ value # 0 => Len(speedBurst') <= MaxBurst
    /\ ret' = [op |-> "setRotationSpeed", status |-> "ok", val |-> ""]
    /\ transport' = <<>>
    /\ UNCHANGED << mutexVars, running, isGetStatusInProgress, state, pollTimerVars,
                    lateOps, lastPoll, sideVars, deviceCommunicator >>

\* A debounce timer fires: its callback dispatches the speed command.
DebounceFire ==
    /\ \E t \in Pending(DebounceTimers) :
          /\ setDeviceValueWithTimeout(62, ToString(dpsRotationSpeed(t.payload)))
          /\ fanSetSpeedDebounceTimer' = t.rest.handle
          /\ strayDebounceTimers' = t.rest.stray
    /\ ret' = NoRet
    /\ UNCHANGED << isGetStatusInProgress, state, pollTimerVars, lateOps, lastPoll,
                    speedBurst, sideVars, deviceCommunicator >>

\* ------------------------------------------------------------ specification
\* Fault variant: the cache starts out valid.
InitStateValid == [fanOn |-> FALSE, fanSpeed |-> 1, fanRotationClockwise |-> FALSE,
                   lightOn |-> FALSE, isValid |-> TRUE]

InitState == [fanOn |-> FALSE, fanSpeed |-> 1, fanRotationClockwise |-> FALSE,
              lightOn |-> FALSE, isValid |-> FALSE]

\* The accessory after its constructor, the cache apart.
InitCore ==
    /\ isLocked = FALSE
    /\ waitingQueue = <<>>
    /\ running = <<>>
    /\ isGetStatusInProgress = FALSE
    /\ getDeviceStatusTimer = getDeviceStatusPeriod
    /\ strayPollTimers = EmptyBag
    /\ fanSetSpeedDebounceTimer = 0
    /\ strayDebounceTimers = EmptyBag
    /\ lateOps = 0
    /\ lastPoll = "none"
    /\ speedBurst = <<>>
    /\ ret = NoRet
    /\ deviceCommunicator = 1
    /\ transport = <<>>

\* The accessory after its constructor.
InitAccessory == InitCore /\ state = InitState

\* No slider value is being converted.
QuantIdle == qRaw = 0 /\ qLevel = -1 /\ qSpeed = -1

\* No direction was asked for or written yet.
DirectionIdle == dirInput = "" /\ dirWritten = ""

\* No call of waitForPromiseWithTimeout is followed on its own.
RaceIdle ==
    /\ raceMs = 0 /\ raceClock = 0
    /\ racePromise = PendingPromise /\ raceTimer = "none" /\ raceOutcome = PendingPromise

\* The platform has launched and has nothing left to do.
PlatformIdle ==
    /\ config = <<>> /\ restorable = {} /\ accessories = {}
    /\ discoveredCacheUUIDs = <<>> /\ registered = <<>> /\ updated = <<>>
    /\ unregistered = {} /\ handlers = <<>> /\ launched = TRUE

Init ==
    /\ InitAccessory
    /\ QuantIdle /\ DirectionIdle /\ RaceIdle /\ PlatformIdle

\* The device-communication core: poller, get handlers, dispatcher fed by
\* the power, direction and light set handlers (here a transport operation
\* that timed out never settles afterwards; SpecLate has the late settling).
Next ==
    \/ PollTimerFire
    \/ \E g \in Getters : HandleGet(g)
    \/ \E i \in 1 .. Len(running) : PollConnected(i)
    \/ \E i \in 1 .. Len(running), s \in Statuses : PollRead(i, s)
    \/ \E i \in 1 .. Len(running) : PollRejected(i)
    \/ \E i \in 1 .. Len(running) : PollTimeout(i, FALSE)
    \/ \E v \in ActiveInputs : handleFanActiveStateSet(v)
    \/ \E v \in DirectionInputs : handleFanRotationDirectionSet(v)
    \/ \E v \in LightInputs : handleLightOnSet(v)
    \/ \E i \in 1 .. Len(running) : SetConnected(i)
    \/ \E i \in 1 .. Len(running) : SetWritten(i)
    \/ \E i \in 1 .. Len(running) : SetRejected(i)
    \/ \E i \in SuspendedAt : SetTimeout(i)

Spec == Init /\ [][Next]_vars

\* The speed path: the slider handler, its debounce timer and the dispatcher,
\* competing with the poller for the lock (here a transport operation that
\* timed out never settles afterwards).
NextSpeed ==
    \/ \E v \in RawInputs : handleFanRotationSpeedSet(v)
    \/ DebounceFire
    \/ PollTimerFire
    \/ \E i \in 1 .. Len(running) : PollConnected(i)
    \/ \E i \in 1 .. Len(running), s \in Statuses : PollRead(i, s)
    \/ \E i \in 1 .. Len(running) : PollRejected(i)
    \/ \E i \in 1 .. Len(running) : PollTimeout(i, FALSE)
    \/ \E i \in 1 .. Len(running) : SetConnected(i)
    \/ \E i \in 1 .. Len(running) : SetWritten(i)
    \/ \E i \in 1 .. Len(running) : SetRejected(i)
    \/ \E i \in SuspendedAt : SetTimeout(i)

SpecSpeed == Init /\ [][NextSpeed]_vars

\* Late settling: the poller and the dispatcher (fed by the light set
\* handler) with transport operations that settle after their waiter timed
\* out.
NextLate ==
    \/ PollTimerFire
    \/ \E i \in 1 .. Len(running) : PollConnected(i)
    \/ \E i \in 1 .. Len(running), s \in Statuses : PollRead(i, s)
    \/ \E i \in 1 .. Len(running) : PollRejected(i)
    \/ \E i \in 1 .. Len(running), late \in BOOLEAN : PollTimeout(i, late)
    \/ LateSettle
    \/ \E v \in LightInputs : handleLightOnSet(v)
    \/ \E i \in 1 .. Len(running) : SetConnected(i)
    \/ \E i \in 1 .. Len(running) : SetWritten(i)
    \/ \E i \in 1 .. Len(running) : SetRejected(i)
    \/ \E i \in SuspendedAt : SetTimeout(i)

SpecLate == Init /\ [][NextLate]_vars

\* The same steps under the scheduling Node.js guarantees: a timer that is
\* pending fires (the poll timer, the timers of the two races of a poll, the
\* timer of the race of a dispatch).  Nothing obliges the device to answer,
\* so no settling of a transport operation is fair.
SpecLive ==
    /\ Init
    /\ [][NextLate]_vars
    /\ WF_vars(PollTimerFire)
    /\ WF_vars(\E i \in 1 .. Len(running), late \in BOOLEAN : PollTimeout(i, late))
    /\ WF_vars(\E i \in SuspendedAt : SetTimeout(i))

\* The set handlers: the four of them, the debounce timer and the
\* dispatcher, without the poller.
NextSetters ==
    \/ \E v \in ActiveInputs : handleFanActiveStateSet(v)
    \/ \E v \in DirectionInputs : handleFanRotationDirectionSet(v)
    \/ \E v \in LightInputs : handleLightOnSet(v)
    \/ \E v \in RawInputs : handleFanRotationSpeedSet(v)
    \/ DebounceFire
    \/ \E i \in 1 .. Len(running) : SetConnected(i)
    \/ \E i \in 1 .. Len(running) : SetWritten(i)
    \/ \E i \in 1 .. Len(running) : SetRejected(i)
    \/ \E i \in SuspendedAt : SetTimeout(i)

SpecSetters == Init /\ [][NextSetters]_vars

\* The quantization functions on every slider value.
InitQuant ==
    /\ InitAccessory
    /\ qRaw \in AllRawInputs /\ qLevel = -1 /\ qSpeed = -1
    /\ DirectionIdle /\ RaceIdle /\ PlatformIdle

\* handleFanRotationSpeedSet computes adjustedValue from the raw input.
QuantAdjust ==
    /\ qLevel = -1
    /\ qLevel' = adjustInputRotationSpeed(qRaw)
    /\ UNCHANGED << mutexVars, running, isGetStatusInProgress, state, pollTimerVars,
                    debounceVars, lateOps, lastPoll, ret, deviceCommunicator,
                    transport, qRaw, qSpeed, directionVars, raceVars, platformVars >>

\* For adjustedValue # 0 the timer callback computes the device speed.
QuantDispatch ==
    /\ qLevel # -1 /\ qLevel # 0 /\ qSpeed = -1
    /\ qSpeed' = dpsRotationSpeed(qLevel)
    /\ UNCHANGED << mutexVars, running, isGetStatusInProgress, state, pollTimerVars,
                    debounceVars, lateOps, lastPoll, ret, deviceCommunicator,
                    transport, qRaw, qLevel, directionVars, raceVars, platformVars >>

NextQuant == QuantAdjust \/ QuantDispatch

SpecQuant == InitQuant /\ [][NextQuant]_vars

\* The speed round trip: a cache as some poll left it, the speed get handler,
\* and the value it returned coming back as slider input.
Caches == [fanOn : BOOLEAN, fanSpeed : 1 .. Len(fanRotationSpeedNormalized),
           fanRotationClockwise : BOOLEAN, lightOn : BOOLEAN, isValid : BOOLEAN]

InitProjection ==
    /\ InitCore
    /\ state \in Caches
    /\ qRaw = -1 /\ qLevel = -1 /\ qSpeed = -1
    /\ DirectionIdle /\ RaceIdle /\ PlatformIdle

\* HomeKit sends the level the speed get handler returned to the speed set
\* handler.
SliderEcho ==
    /\ qRaw = -1
    /\ ret.op = "RotationSpeed" /\ ret.status = "value"
    /\ qRaw' = Number(ret.val)
    /\ UNCHANGED << accessoryVars, qLevel, qSpeed, directionVars, raceVars, platformVars >>

NextProjection ==
    \/ HandleGet("RotationSpeed")
    \/ SliderEcho
    \/ qRaw # -1 /\ QuantAdjust
    \/ QuantDispatch

SpecProjection == InitProjection /\ [][NextProjection]_vars

\* The direction round trip: one direction command reaches the device, and
\* from then on the device answers status reads with the value it was sent.
AllDirectionInputs == {"CLOCKWISE", "COUNTER_CLOCKWISE"}

\* set() of the dispatch of handleFanRotationDirectionSet(value) resolves:
\* the device holds the value.
DirectionWrite(value) ==
    /\ dirWritten = ""
    /\ dirInput' = value
    /\ dirWritten' = dpsRotationDirection(value)
    /\ UNCHANGED << accessoryVars, quantVars, raceVars, platformVars >>

NextDirection ==
    \/ \E v \in AllDirectionInputs : DirectionWrite(v)
    \/ PollTimerFire
    \/ \E i \in 1 .. Len(running) : PollConnected(i)
    \/ \E i \in 1 .. Len(running), s \in Statuses : s.d63 = dirWritten /\ PollRead(i, s)
    \/ \E i \in 1 .. Len(running) : PollRejected(i)
    \/ \E g \in Getters : HandleGet(g)

SpecDirection == Init /\ [][NextDirection]_vars

\* ------------------------------------------------ waitForPromiseWithTimeout
\* One call waitForPromiseWithTimeout(promise, ms) followed on its own.
Timeouts == {getDeviceStatusConnectTimeout, getDeviceStatusReadTimeout,
             setDeviceStatusTimeout}

\* What connect(), get() or setDeviceValue() may settle with.
Settlements ==
    { [status |-> "resolved", value |-> "true"],
      [status |-> "resolved", value |-> "dps"],
      [status |-> "resolved", value |-> "undefined"],
      [status |-> "rejected", value |-> "ECONNREFUSED"],
      [status |-> "rejected", value |-> "EHOSTUNREACH"] }

\* The rejection of the timeout promise.
TimeoutError(ms) ==
    [status |-> "rejected",
     value |-> "Waiting for promise timed out after " \o ToString(ms) \o " ms"]

\* Fault variant: every settlement of an input settles the result again.
PromiseRaceLastWins(outcome, settled) == settled

\* Promise.race: the result follows the input that settles first.
PromiseRace(outcome, settled) ==
    IF outcome.status = "pending" THEN settled ELSE outcome

\* The call was made; the promise passed in may have settled already.
InitRace ==
    /\ InitAccessory /\ QuantIdle /\ DirectionIdle /\ PlatformIdle
    /\ raceMs \in Timeouts
    /\ raceClock = 0
    /\ racePromise \in {PendingPromise} \cup Settlements
    /\ raceTimer = "pending"
    /\ raceOutcome = PromiseRace(PendingPromise, racePromise)

\* Time passes, up to one of the deadlines.
RaceTick ==
    /\ \E t \in Timeouts : t > raceClock /\ raceClock' = t
    /\ UNCHANGED << accessoryVars, quantVars, directionVars, platformVars,
                    raceMs, racePromise, raceTimer, raceOutcome >>

\* The promise passed in settles.
PromiseSettles(v) ==
    /\ racePromise.status = "pending"
    /\ racePromise' = v
    /\ raceOutcome' = PromiseRace(raceOutcome, v)
    /\ UNCHANGED << accessoryVars, quantVars, directionVars, platformVars,
                    raceMs, raceClock, raceTimer >>

\* The timer set by the call fires, ms after the call at the earliest; it
\* is never cleared.
RaceTimerFires ==
    /\ raceTimer = "pending"
    /\ raceClock >= raceMs
    /\ raceTimer' = "fired"
    /\ raceOutcome' = PromiseRace(raceOutcome, TimeoutError(raceMs))
    /\ UNCHANGED << accessoryVars, quantVars, directionVars, platformVars,
                    raceMs, raceClock, racePromise >>

NextRace ==
    \/ RaceTick
    \/ \E v \in Settlements : PromiseSettles(v)
    \/ RaceTimerFires

SpecRace == InitRace /\ [][NextRace]_vars

\* ----------------------------------------------------------------- platform
\* api.hap.uuid.generate: a fixed UUID for each device id.
uuidGenerate(id) == "uuid-" \o id

\* Fault variant: only the UUID of a newly created accessory is pushed into
\* discoveredCacheUUIDs.
RECURSIVE DiscoverLoopPushesNewOnly(_, _)
DiscoverLoopPushesNewOnly(i, p) ==
    IF i > Len(config) THEN p
    ELSE LET uuid == uuidGenerate(config[i])
             q == IF uuid \in accessories
                  THEN [p EXCEPT !.updated = Append(@, uuid),
                                 !.handlers = Append(@, uuid)]
                  ELSE [p EXCEPT !.handlers = Append(@, uuid),
                                 !.registered = Append(@, uuid),
                                 !.discovered = Append(@, uuid)]
         IN  DiscoverLoopPushesNewOnly(i + 1, q)

\* The first loop of discoverDevices from device i on; p collects the calls
\* made so far.
RECURSIVE DiscoverLoop(_, _)
DiscoverLoop(i, p) ==
    IF i > Len(config) THEN p
    ELSE LET uuid == uuidGenerate(config[i])
             q == IF uuid \in accessories
                  THEN [p EXCEPT !.updated = Append(@, uuid),
                                 !.handlers = Append(@, uuid)]
                  ELSE [p EXCEPT !.handlers = Append(@, uuid),
                                 !.registered = Append(@, uuid)]
         IN  DiscoverLoop(i + 1, [q EXCEPT !.discovered = Append(@, uuid)])

\* Homebridge restores one cached accessory.
configureAccessory(uuid) ==
    /\ ~launched
    /\ uuid \in restorable
    /\ restorable' = restorable \ {uuid}
    /\ accessories' = accessories \cup {uuid}
    /\ UNCHANGED << accessoryVars, quantVars, directionVars, raceVars, config,
                    discoveredCacheUUIDs, registered, updated, unregistered,
                    handlers, launched >>

\* didFinishLaunching, fired once every cached accessory is restored, calls
\* discoverDevices.
discoverDevices ==
    LET p == DiscoverLoop(1, [registered |-> registered, updated |-> updated,
                              handlers |-> handlers,
                              discovered |-> discoveredCacheUUIDs])
    IN  /\ ~launched
        /\ restorable = {}
        /\ launched' = TRUE
        /\ registered' = p.registered
        /\ updated' = p.updated
        /\ handlers' = p.handlers
        /\ discoveredCacheUUIDs' = p.discovered
        /\ unregistered' = unregistered \cup
               {uuid \in accessories : \A k \in 1 .. Len(p.discovered) : p.discovered[k] # uuid}
        /\ UNCHANGED << accessoryVars, quantVars, directionVars, raceVars, config,
                        restorable, accessories >>

\* The platform at its construction: any configured devices, any accessories
\* on disk.
InitPlatform ==
    /\ InitAccessory /\ QuantIdle /\ DirectionIdle /\ RaceIdle
    /\ config \in UNION {[1 .. n -> DeviceIds] : n \in 0 .. MaxDevices}
    /\ restorable \in SUBSET {uuidGenerate(id) : id \in DeviceIds}
    /\ accessories = {} /\ discoveredCacheUUIDs = <<>> /\ registered = <<>>
    /\ updated = <<>> /\ unregistered = {} /\ handlers = <<>> /\ launched = FALSE

NextPlatform ==
    \/ \E uuid \in restorable : configureAccessory(uuid)
    \/ discoverDevices

SpecPlatform == InitPlatform /\ [][NextPlatform]_vars

\* =================================================================== claims
Holders == SelectSeq(waitingQueue \o running, LAMBDA t : t.granted)
\* A task, and a queue of tasks, with the history field left out.
Unranked(t) == [t EXCEPT !.ahead = 0]
UnrankedAll(q) == [i \in 1 .. Len(q) |-> Unranked(q[i])]
Unflagged(q) == [i \in 1 .. Len(q) |-> [q[i] EXCEPT !.timedOut = FALSE, !.ahead = 0]]
SetOps == {"setActive", "setRotationDirection", "setOn"}
Failure == "SERVICE_COMMUNICATION_FAILURE"

\* C1 (mutual exclusion): in every reachable state at most one caller of
\* Mutex.lock() has been granted a release function it has not yet invoked.
MutualExclusion == Len(Holders) <= 1

\* A caller holds the lock while another caller waits for it.
MutualExclusionWitness == Len(Holders) = 1 /\ Len(waitingQueue) >= 1

\* C2 (FIFO): a lock() call on a held mutex joins the end of the queue and
\* leaves the earlier waiters in place; a grant made while callers wait goes
\* to the caller that has waited longest, the others keep their order; no
\* caller is granted at once while another still waits.
FifoStep ==
    /\ Len(waitingQueue') > Len(waitingQueue)
         => /\ Len(waitingQueue') = Len(waitingQueue) + 1
            /\ SubSeq(waitingQueue', 1, Len(waitingQueue)) = waitingQueue
    /\ Len(waitingQueue') < Len(waitingQueue)
         => /\ UnrankedAll(waitingQueue') = UnrankedAll(Tail(waitingQueue))
            /\ \E i \in 1 .. Len(running') :
                  Unranked(running'[i]) = Unranked(Resume(Head(waitingQueue)))
    /\ Len(waitingQueue') = Len(waitingQueue)
         => /\ Unflagged(waitingQueue') = Unflagged(waitingQueue)
            /\ Len(running') > Len(running) => waitingQueue = <<>>
FifoOrder == [][FifoStep]_vars

\* A dispatch has just released the lock to the first of two waiters.
FifoOrderWitness ==
    ret.status = "ok" /\ Len(running) = 1 /\ Len(waitingQueue) >= 1

\* C3 (direct hand-off): a non-empty queue implies a held lock; a release
\* with waiters leaves the lock held and makes the head waiter the holder; a
\* release without waiters marks the lock free.
HandOffStep ==
    /\ Len(waitingQueue') < Len(waitingQueue)
         => /\ isLocked'
            /\ \E i \in 1 .. Len(running') :
                  Unranked(running'[i]) = Unranked(Resume(Head(waitingQueue)))
    /\ Len(running') < Len(running)
         => waitingQueue = <<>> /\ waitingQueue' = <<>> /\ ~isLocked'
DirectHandOff ==
    /\ [](Len(waitingQueue) > 0 => isLocked)
    /\ [][HandOffStep]_vars

\* A dispatch has just handed the lock to a waiting poll.
DirectHandOffWitness ==
    /\ ret.op \in SetOps /\ ret.status = "ok"
    /\ isLocked /\ Len(running) = 1 /\ running[1].kind = "poll"

\* C4 (single-flight polling): at most one read cycle of getDeviceStatus is
\* suspended at any time, and isGetStatusInProgress is set exactly while one
\* is; a getDeviceStatus call (timer or get handler) made while a read is in
\* flight starts no cycle and leaves that read, the flag and the cache as
\* they are.
PollCycles == SelectSeq(waitingQueue \o running, LAMBDA t : t.kind = "poll")
SkipStep ==
    (isGetStatusInProgress /\ (PollTimerFire \/ \E g \in Getters : HandleGet(g)))
        => /\ PollCycles' = PollCycles
           /\ UNCHANGED << isGetStatusInProgress, state >>
SingleFlight ==
    /\ [](NumPollTasks <= 1 /\ (isGetStatusInProgress <=> NumPollTasks = 1))
    /\ [][SkipStep]_vars

\* A get handler called getDeviceStatus while a read was waiting for get():
\* the call took the skip branch and set the timer.
SingleFlightWitness ==
    /\ ret.op \in Getters
    /\ isGetStatusInProgress /\ getDeviceStatusTimer = getDeviceStatusPeriod
    /\ \E i \in 1 .. Len(running) : IsPollAt(i, {"operating"})

\* C5 (connection used under the lock): every task that has called connect()
\* and has not finished owns the release function of a mutex that is marked
\* held, and every task that does not own it is still suspended in lock().
ConnectionUnderLock ==
    /\ \A i \in 1 .. Len(running) : running[i].granted /\ isLocked
    /\ \A j \in 1 .. Len(waitingQueue) :
          ~waitingQueue[j].granted /\ waitingQueue[j].pc = "waitLock"

\* A dispatch waits for its set() while a poll waits for the lock.
ConnectionUnderLockWitness ==
    /\ \E i \in 1 .. Len(running) : IsSetAt(i, {"operating"})
    /\ \E j \in 1 .. Len(waitingQueue) : waitingQueue[j].kind = "poll"

\* C6 (stale-cache rejection): a get handler called while the last completed
\* poll is a failed one fails with SERVICE_COMMUNICATION_FAILURE.
StaleCacheRejection ==
    (lastPoll = "failed" /\ ret.op \in Getters) => ret.status = Failure

\* The cache holds the values of a successful read, the poll after it failed,
\* and the Active get handler has just failed.
StaleCacheRejectionWitness ==
    /\ state.fanOn /\ lastPoll = "failed"
    /\ ret.op = "Active" /\ ret.status = Failure

\* C7 (getters never wait): a get handler step delivers the failure when the
\* cache is invalid at the call and otherwise the projection of the cache as
\* it is at the call; and the handler can always take that step, whoever
\* holds the lock and whatever the poll is waiting for (the model stops
\* get requests only at its bound on stray timers).
ProjectionOf(g, st) ==
    CASE g = "Active"            -> IF st.fanOn THEN "ACTIVE" ELSE "INACTIVE"
      [] g = "RotationSpeed"     ->
            (CASE st.fanSpeed = 1 -> "10" [] st.fanSpeed = 2 -> "30"
               [] st.fanSpeed = 3 -> "50" [] st.fanSpeed = 4 -> "70"
               [] st.fanSpeed = 5 -> "90" [] st.fanSpeed = 6 -> "100")
      [] g = "RotationDirection" ->
            IF st.fanRotationClockwise THEN "CLOCKWISE" ELSE "COUNTER_CLOCKWISE"
      [] g = "On"                -> IF st.lightOn THEN "true" ELSE "false"
GetterStep ==
    \A g \in Getters :
        HandleGet(g) =>
            ret' = IF state.isValid
                   THEN [op |-> g, status |-> "value", val |-> ProjectionOf(g, state)]
                   ELSE [op |-> g, status |-> Failure, val |-> ""]
GettersNeverWait ==
    /\ [][GetterStep]_vars
    /\ [](\A g \in Getters :
            BagCardinality(strayPollTimers) < MaxStrayTimers => ENABLED HandleGet(g))

\* A get handler returned a cached value while the poll it started waits for
\* the lock behind a dispatch.
GettersNeverWaitWitness ==
    /\ ret.op \in Getters /\ ret.status = "value"
    /\ getDeviceStatusTimer = 0
    /\ Len(running) = 1 /\ running[1].kind = "set"
    /\ Len(waitingQueue) >= 1 /\ waitingQueue[Len(waitingQueue)].kind = "poll"

\* C8 (adaptive cadence): the step that completes a poll sets the timer to
\* 1000 ms when the poll failed and to 10000 ms when it succeeded.
CadenceStep ==
    (isGetStatusInProgress /\ ~isGetStatusInProgress')
        => /\ lastPoll' \in {"ok", "failed"}
           /\ getDeviceStatusTimer' = IF lastPoll' = "failed" THEN 1000 ELSE 10000
AdaptiveCadence == [][CadenceStep]_vars

\* A failed poll has left the fast-retry timer pending.
AdaptiveCadenceWitness ==
    lastPoll = "failed" /\ ~isGetStatusInProgress /\ getDeviceStatusTimer = 1000

\* The table of the slider: raw input -> quantized level -> device speed.
TableLevel(r) ==
    CASE r = 0               -> 0
      [] r >= 1  /\ r <= 19  -> 10
      [] r >= 20 /\ r <= 39  -> 30
      [] r >= 40 /\ r <= 59  -> 50
      [] r >= 60 /\ r <= 79  -> 70
      [] r >= 80 /\ r <= 94  -> 90
      [] r >= 95 /\ r <= 100 -> 100
TableSpeed(r) ==
    CASE TableLevel(r) = 10  -> 1 [] TableLevel(r) = 30 -> 2
      [] TableLevel(r) = 50  -> 3 [] TableLevel(r) = 70 -> 4
      [] TableLevel(r) = 90  -> 5 [] TableLevel(r) = 100 -> 6

\* C9 (debounce): a slider input dispatches nothing itself; at most one
\* debounce timer is pending; when it fires exactly one command is
\* dispatched, for data point 62 with the device speed of the last input of
\* the burst.
NumPendingDebounce == BagCardinality(strayDebounceTimers)
                      + (IF fanSetSpeedDebounceTimer # 0 THEN 1 ELSE 0)
DebounceStep ==
    /\ \A v \in RawInputs :
          handleFanRotationSpeedSet(v) => UNCHANGED << waitingQueue, running >>
    /\ DebounceFire =>
          LET t == SetTask(62, ToString(TableSpeed(speedBurst[Len(speedBurst)]))) IN
          /\ Len(speedBurst) > 0
          /\ NumPendingDebounce' = 0
          /\ \/ waitingQueue' = Append(waitingQueue, t) /\ running' = running
             \/ running' = Append(running, Resume(t)) /\ waitingQueue' = waitingQueue
DebounceOneCommand ==
    /\ [](NumPendingDebounce <= 1)
    /\ [][DebounceStep]_vars

\* The burst 19, 58 has ended with its timer fired, and the one dispatch
\* alive is the command for device speed 3.
DebounceOneCommandWitness ==
    /\ speedBurst = <<19, 58>> /\ NumPendingDebounce = 0
    /\ NumSetTasks = 1
    /\ \E i \in 1 .. Len(running) : running[i].dps = 62 /\ running[i].value = "3"

\* C10 (quantization): for every raw input 0..100 the quantized level and
\* the device speed are those of the table, and raw input 0 gives level 0 and
\* no device speed.
QuantizationTable ==
    /\ qLevel # -1 => qLevel = TableLevel(qRaw)
    /\ qSpeed # -1 => qRaw # 0 /\ qSpeed = TableSpeed(qRaw)
    /\ (qLevel # -1 /\ qRaw # 0) => (qSpeed # -1 \/ ENABLED QuantDispatch)

\* Raw input 94, the last of its range, reached device speed 5.
QuantizationTableWitness == qRaw = 94 /\ qLevel = 90 /\ qSpeed = 5

\* C11 (input 0 cancels): a slider input of 0 leaves no debounce timer
\* pending and dispatches nothing; while the latest burst ends with input 0
\* no timer is pending and no speed command is dispatched, so a non-zero
\* input followed by 0 within the debounce period sends no speed command.
SpeedCommands == SelectSeq(waitingQueue \o running, LAMBDA t : t.dps = 62)
EndsWithZero(b) == Len(b) = 0 \/ b[Len(b)] = 0
ZeroInputStep ==
    /\ handleFanRotationSpeedSet(0) =>
          /\ NumPendingDebounce' = 0
          /\ UNCHANGED << waitingQueue, running >>
    /\ (EndsWithZero(speedBurst) /\ EndsWithZero(speedBurst')) =>
          Len(SpeedCommands') <= Len(SpeedCommands)
ZeroCancelsDebounce ==
    /\ [](EndsWithZero(speedBurst) => NumPendingDebounce = 0)
    /\ [][ZeroInputStep]_vars

\* Input 19 was followed by input 0 while its timer was pending: no timer is
\* left and no dispatch exists.
ZeroCancelsDebounceWitness ==
    /\ speedBurst = <<19, 0>> /\ NumPendingDebounce = 0
    /\ NumSetTasks = 0 /\ ret.op = "setRotationSpeed"

\* C12 (dispatch failure is reported): whenever connect() or set() of a
\* dispatch rejects or the deadline passes while a set handler awaits it,
\* setDeviceValueWithTimeout fails with SERVICE_COMMUNICATION_FAILURE to that
\* handler.
DispatchFailureStep ==
    /\ \A i \in 1 .. Len(running) :
          (SetRejected(i) /\ ~running[i].timedOut /\ AwaitedBy(running[i].dps) # "none")
              => ret' = [op |-> AwaitedBy(running[i].dps), status |-> Failure, val |-> ""]
    /\ \A i \in SuspendedAt :
          (SetTimeout(i)
             /\ AwaitedBy((IF i > 0 THEN running[i] ELSE waitingQueue[-i]).dps) # "none")
              => ret'.status = Failure
DispatchFailureReported == [][DispatchFailureStep]_vars

\* The set handler that awaits the dispatch of a data point, "none" for the
\* speed command (its dispatch is awaited by the debounce timer callback).
HandlerOf(t) ==
    CASE t.dps = 60 -> "setActive" [] t.dps = 63 -> "setRotationDirection"
      [] t.dps = 20 -> "setOn"     [] t.dps = 62 -> "none"
TaskAt(i) == IF i > 0 THEN running[i] ELSE waitingQueue[-i]
AllSetOps == SetOps \cup {"setRotationSpeed"}

\* C13 as stated (setters complete after the dispatch or fail): a setter
\* call does not complete before its command was dispatched, and when the
\* deadline of a dispatch passes the failure is reported to the setter that
\* caused it, the speed setter included.
SetterReportsStep ==
    /\ \A v \in RawInputs \ {0} : handleFanRotationSpeedSet(v) => ret'.status # "ok"
    /\ \A i \in SuspendedAt :
          SetTimeout(i) =>
              /\ ret'.status = Failure
              /\ ret'.op = IF TaskAt(i).dps = 62 THEN "setRotationSpeed"
                                                  ELSE HandlerOf(TaskAt(i))
SetterReports == [][SetterReportsStep]_vars

\* C13 (amended): every setter call completes or fails with the failure
\* signal.  The power, direction and light setters deliver nothing at the
\* call, complete when their dispatch finishes (written or rejected) before
\* the deadline and fail with SERVICE_COMMUNICATION_FAILURE when the deadline
\* passes first.  The speed setter completes at once, before any command is
\* dispatched, and neither the end nor the timeout of the debounced speed
\* command is delivered to any setter.
SetterOutcomeStep ==
    /\ \A v \in RawInputs :
          handleFanRotationSpeedSet(v) =>
              /\ ret' = [op |-> "setRotationSpeed", status |-> "ok", val |-> ""]
              /\ UNCHANGED << waitingQueue, running >>
    /\ ( \/ \E v \in ActiveInputs : handleFanActiveStateSet(v)
         \/ \E v \in DirectionInputs : handleFanRotationDirectionSet(v)
         \/ \E v \in LightInputs : handleLightOnSet(v)
         \/ DebounceFire ) => ret'.op = "none"
    /\ \A i \in 1 .. Len(running) :
          (SetWritten(i) \/ SetRejected(i)) =>
              /\ Len(running') + Len(waitingQueue') = Len(running) + Len(waitingQueue) - 1
              /\ IF running[i].timedOut \/ running[i].dps = 62
                 THEN ret'.op = "none"
                 ELSE ret' = [op |-> HandlerOf(running[i]), status |-> "ok", val |-> ""]
    /\ \A i \in SuspendedAt :
          SetTimeout(i) =>
              IF TaskAt(i).dps = 62
              THEN ret'.op = "none"
              ELSE ret' = [op |-> HandlerOf(TaskAt(i)), status |-> Failure, val |-> ""]
SetterOutcome ==
    /\ [](ret.op \in AllSetOps => ret.status \in {"ok", Failure})
    /\ [](ret.op = "setRotationSpeed" => ret.status = "ok")
    /\ [][SetterOutcomeStep]_vars

\* The deadline of a debounced speed command has just passed while it waits
\* for set(): nothing was delivered to a setter.
SetterOutcomeWitness ==
    /\ ret.op = "none" /\ transport = <<>>
    /\ \E i \in 1 .. Len(running) :
          running[i].dps = 62 /\ running[i].timedOut /\ running[i].pc = "operating"

\* C14 (scoped release): the lock is held exactly while a granted poll or
\* dispatch has not finished; every step that ends getDeviceStatus or
\* setDeviceValue (read or write done, connect/read/write rejected, connect
\* or read timed out) ends a task that owned the release function and
\* invokes it once: at most one waiter leaves the queue and becomes the
\* holder, and with no waiter the lock is free.
ExitStep(i) ==
    \/ \E s \in Statuses : PollRead(i, s)
    \/ PollRejected(i)
    \/ \E late \in BOOLEAN : PollTimeout(i, late)
    \/ SetWritten(i)
    \/ SetRejected(i)
ScopedReleaseStep ==
    \A i \in 1 .. Len(running) :
        ExitStep(i) =>
            /\ running[i].granted
            /\ isLocked' = (Len(waitingQueue) > 0)
            /\ Len(Holders') = (IF Len(waitingQueue) > 0 THEN 1 ELSE 0)
            /\ Len(waitingQueue') = (IF Len(waitingQueue) > 0 THEN Len(waitingQueue) - 1 ELSE 0)
            /\ Len(running') + Len(waitingQueue') = Len(running) + Len(waitingQueue) - 1
ScopedRelease ==
    /\ [](isLocked <=> Len(Holders) = 1)
    /\ [][ScopedReleaseStep]_vars

\* A poll has just failed (its catch block disconnected) with nobody
\* waiting: the lock is free and no task is left.
ScopedReleaseWitness ==
    /\ lastPoll = "failed" /\ transport = <<"disconnect">>
    /\ ~isLocked /\ running = <<>> /\ waitingQueue = <<>>

\* C15 (timeout non-corruption): the late settling of a connect() or get()
\* whose poll timed out changes neither the cache nor the lock nor any task;
\* the late end of a dispatch whose deadline has passed leaves the cache as
\* it is, delivers nothing and releases the lock (to the head waiter, or
\* free).
LateCompletionStep ==
    /\ LateSettle =>
          UNCHANGED << state, isLocked, waitingQueue, running, isGetStatusInProgress >>
    /\ \A i \in 1 .. Len(running) :
          (running[i].timedOut /\ (SetWritten(i) \/ SetRejected(i))) =>
              /\ state' = state
              /\ ret'.op = "none"
              /\ isLocked' = (Len(waitingQueue) > 0)
              /\ Len(Holders') = (IF Len(waitingQueue) > 0 THEN 1 ELSE 0)
TimeoutNonCorruption == [][LateCompletionStep]_vars

\* A late settlement has just been disregarded while the cache holds a
\* successful read and the lock is free.
TimeoutNonCorruptionWitness ==
    /\ ret = Disregarded /\ state.isValid /\ lastPoll = "ok"
    /\ ~isLocked /\ running = <<>>

\* C16 (late connect lands without the lock): when connect() of a dispatch
\* settles after the deadline of that dispatch has fired, the dispatch no
\* longer holds the lock.
LateConnectStep ==
    \A i \in 1 .. Len(running) :
        (running[i].timedOut /\ running[i].pc = "connecting"
           /\ (SetConnected(i) \/ SetRejected(i)))
            => ~(running[i].granted /\ isLocked)
LateConnectWithoutLock == [][LateConnectStep]_vars

\* C17 (connection rebuild): a run of consecutive failed polls makes the
\* poller replace the connection object.  Stated for the shortest run that
\* differs from a single failure: the step that completes a failed poll
\* right after a failed poll leaves deviceCommunicator referring to a new
\* object.
ConnectionRebuildStep ==
    (isGetStatusInProgress /\ ~isGetStatusInProgress'
       /\ lastPoll = "failed" /\ lastPoll' = "failed")
        => deviceCommunicator' # deviceCommunicator
ConnectionRebuild == [][ConnectionRebuildStep]_vars

\* C18 (poll failure is absorbed): the step in which connect() or get() of
\* a poll rejects or times out calls disconnect() first, leaves the cache
\* invalid, the read-in-progress flag down, the poll gone and the lock
\* released (handed to the head waiter, or free), sets the timer to the
\* fast-retry period and delivers nothing to anybody; and a get handler that
\* calls getDeviceStatus on a valid cache returns its value.
PollFailureStep ==
    /\ \A i \in 1 .. Len(running) :
          (PollRejected(i) \/ \E late \in BOOLEAN : PollTimeout(i, late)) =>
              /\ Len(transport') >= 1 /\ transport'[1] = "disconnect"
              /\ ~state'.isValid
              /\ ~isGetStatusInProgress' /\ NumPollTasks' = 0
              /\ isLocked' = (Len(waitingQueue) > 0)
              /\ Len(Holders') = (IF Len(waitingQueue) > 0 THEN 1 ELSE 0)
              /\ getDeviceStatusTimer' = 1000
              /\ ret' = NoRet
    /\ \A g \in Getters : (HandleGet(g) /\ state.isValid) => ret'.status = "value"
PollFailureAbsorbed == [][PollFailureStep]_vars

\* A poll has just failed after an earlier one had succeeded, and the lock
\* went to a waiting dispatch, which called connect().
PollFailureAbsorbedWitness ==
    /\ lastPoll = "failed" /\ transport = <<"disconnect", "connect">>
    /\ state.fanOn /\ ~state.isValid /\ getDeviceStatusTimer = 1000
    /\ isLocked /\ Len(running) = 1 /\ running[1].kind = "set"

\* C19 (the dispatcher leaves the cache alone): every step of a command
\* dispatch (the set handler's call, connect() settling, set() resolving or
\* rejecting, the deadline firing) leaves fanOn, fanSpeed,
\* fanRotationClockwise, lightOn and isValid as they are.
DispatchStep ==
    \/ \E v \in ActiveInputs : handleFanActiveStateSet(v)
    \/ \E v \in DirectionInputs : handleFanRotationDirectionSet(v)
    \/ \E v \in LightInputs : handleLightOnSet(v)
    \/ DebounceFire
    \/ \E i \in 1 .. Len(running) : SetConnected(i) \/ SetWritten(i) \/ SetRejected(i)
    \/ \E i \in SuspendedAt : SetTimeout(i)
DispatchKeepsCacheStep == DispatchStep => state' = state
DispatchKeepsCache == [][DispatchKeepsCacheStep]_vars

\* The light setter has just completed after `false` was written, and the
\* valid cache still says the light is on.
DispatchKeepsCacheWitness ==
    /\ ret = [op |-> "setOn", status |-> "ok", val |-> ""] /\ transport = <<>>
    /\ state.isValid /\ state.lightOn

\* C20 (cache writes belong to the poller under the lock): a step that
\* changes the cache is the end of a poll that is the sole owner of the held
\* lock, and it writes in one piece: either isValid alone becomes false, or
\* all four fields take the values of one status read and isValid is true.
WholeRead(s) ==
    [fanOn |-> s.d60, fanSpeed |-> s.d62, fanRotationClockwise |-> (s.d63 # "forward"),
     lightOn |-> s.d20, isValid |-> TRUE]
CacheWriteStep ==
    state' # state =>
        /\ \E i \in 1 .. Len(running) :
              /\ running[i].kind = "poll" /\ running[i].granted
              /\ isLocked /\ Holders = << running[i] >>
              /\ ExitStep(i)
        /\ \/ state' = [state EXCEPT !.isValid = FALSE]
           \/ \E s \in Statuses : state' = WholeRead(s)
CacheWrittenUnderLock == [][CacheWriteStep]_vars

\* A poll has just stored a read (speed 6, light on) and handed the lock to
\* the first of two dispatches that waited for it.
CacheWrittenUnderLockWitness ==
    /\ lastPoll = "ok" /\ state = WholeRead([d60 |-> FALSE, d62 |-> 6, d63 |-> "reverse",
                                              d20 |-> TRUE])
    /\ transport = <<"connect">>
    /\ Len(running) = 1 /\ running[1].kind = "set"
    /\ Len(waitingQueue) = 1 /\ waitingQueue[1].kind = "set"

\* ---------------------------------------------------------------------------
\* C21  Recovery liveness: whatever failed before (a transport operation of
\* the poller or of a dispatch that rejected, timed out or never settles),
\* the lock is released again and a later poll starts a new connect/read
\* cycle: at every moment a poll will still call connect() under the lock.
PollCycleStarts ==
    \E i \in 1 .. Len(running) : IsPollAt(i, {"connecting"})

RecoveryLiveness == []<>PollCycleStarts

\* ---------------------------------------------------------------------------
\* C29  Bounded poller critical section: a poll that was granted the lock
\* leaves its critical section, whether or not connect() and get() ever
\* settle.
PollHoldsLock == \E i \in 1 .. Len(running) : running[i].kind = "poll"

PollerReleases == PollHoldsLock ~> ~PollHoldsLock

\* A poll whose connect() or get() outlived its timeout has released the lock while
\* the operation is still outstanding.
PollerReleasesWitness ==
    /\ lateOps > 0
    /\ lastPoll = "failed"
    /\ ~PollHoldsLock
    /\ ~isLocked
    /\ transport = <<"disconnect">>

\* ---------------------------------------------------------------------------
\* C22  Only one command is sent to the device at a time: at most one
\* transport operation (connect, get or set) is outstanding, the operations
\* whose waiter has timed out included.
\* Every task past the lock is suspended in one operation; lateOps counts the
\* operations a timed-out poll left behind.
OutstandingOperations == Len(running) + lateOps

OneOperationOutstanding == OutstandingOperations <= 1

\* ---------------------------------------------------------------------------
\* C23 as stated (slider zero switches the fan off): a rotation-speed set
\* request with value 0 starts a power-off command (data point 60, false).
PowerOffCommands ==
    SelectSeq(waitingQueue \o running, LAMBDA t : t.dps = 60 /\ t.value = "false")

PowerOffStep ==
    /\ handleFanRotationSpeedSet(0) =>
          /\ UNCHANGED << waitingQueue, running >>
          /\ NumPendingDebounce' = 0
          /\ transport' = <<>>
    /\ handleFanActiveStateSet("INACTIVE") =>
          Len(PowerOffCommands') = Len(PowerOffCommands) + 1
    /\ Len(PowerOffCommands') > Len(PowerOffCommands) =>
          handleFanActiveStateSet("INACTIVE")
    /\ \A i \in 1 .. Len(running) :
          (SetConnected(i) /\ running[i].dps = 60) =>
              /\ running'[i].value = "false"
              /\ transport' = <<"set">>
CacheFields(st) == << st.fanOn, st.fanSpeed, st.fanRotationClockwise, st.lightOn >>

FailedPollStep ==
    /\ \A i \in 1 .. Len(running) :
          (PollRejected(i) \/ PollTimeout(i, FALSE)) =>
              state' = [state EXCEPT !.isValid = FALSE]
    /\ ((state'.isValid /\ ~state.isValid) \/ CacheFields(state') # CacheFields(state)) =>
          \E i \in 1 .. Len(running), s \in Statuses :
              PollRead(i, s) /\ state' = WholeRead(s)
FailedPollKeepsFields == [][FailedPollStep]_vars

\* A poll failed after an earlier one had read speed 6 and the light on: the
\* cache is invalid and still holds that read.
FailedPollKeepsFieldsWitness ==
    /\ lastPoll = "failed" /\ ~state.isValid
    /\ state.fanSpeed = 6 /\ state.lightOn /\ state.fanRotationClockwise
    /\ transport = <<"disconnect">>

\* ---------------------------------------------------------------------------
\* C30  Polling never silently stops: in every reachable state a status read
\* is in progress or a poll timer is pending; a call of getDeviceStatus that
\* finds a read in progress leaves the timer set to the normal period, and
\* the call that did the read leaves it set when it ends.
PollingAliveStep ==
    /\ (isGetStatusInProgress /\ (PollTimerFire \/ \E g \in Getters : HandleGet(g))) =>
          getDeviceStatusTimer' = getDeviceStatusPeriod
    /\ (isGetStatusInProgress /\ ~isGetStatusInProgress') =>
          getDeviceStatusTimer' \in {getDeviceStatusFastRetryPeriod, getDeviceStatusPeriod}
PollingNeverStops ==
    /\ [](isGetStatusInProgress \/ Pending(PollTimers) # {})
    /\ [][PollingAliveStep]_vars

\* A get handler has just called getDeviceStatus while the read waits for
\* the lock behind a dispatch: the read goes on, with the timer set again.
PollingNeverStopsWitness ==
    /\ isGetStatusInProgress /\ ret.op \in Getters
    /\ getDeviceStatusTimer = getDeviceStatusPeriod
    /\ Len(waitingQueue) = 1 /\ waitingQueue[1].kind = "poll"
    /\ Len(running) = 1 /\ running[1].kind = "set"

\* ---------------------------------------------------------------------------
\* C24  Accessories are registered only once: whatever devices are
\* configured and whatever accessories were restored, discoverDevices
\* registers no UUID that was restored, registers no UUID twice, and
\* constructs exactly one accessory handler per configured device.
NoDuplicates(q) == \A j, k \in 1 .. Len(q) : q[j] = q[k] => j = k

RegisteredOnce ==
    launched =>
        /\ \A k \in 1 .. Len(registered) : registered[k] \notin accessories
        /\ NoDuplicates(registered)
        /\ Len(handlers) = Len(config)

\* ---------------------------------------------------------------------------
\* C26  Speed projection is the inverse of quantization: for a valid cache
\* with device speed s in 1..6 the speed get handler returns a level L(s) of
\* {10,30,50,70,90,100}; quantizing L(s) gives L(s) again, and the device
\* speed dispatched for L(s) is s.
QuantizedLevels == {10, 30, 50, 70, 90, 100}

ProjectionInverse ==
    /\ (ret.op = "RotationSpeed" /\ state.isValid) =>
          ret.status = "value" /\ ret.val \in {ToString(l) : l \in QuantizedLevels}
    /\ qRaw # -1 => qRaw \in QuantizedLevels
    /\ qLevel # -1 => qLevel = qRaw
    /\ qSpeed # -1 => qSpeed = state.fanSpeed

\* Device speed 5 was projected to 90, quantized to 90 and dispatched as 5.
ProjectionInverseWitness ==
    /\ state.isValid /\ state.fanSpeed = 5
    /\ ret.val = "90" /\ qRaw = 90 /\ qLevel = 90 /\ qSpeed = 5

\* ---------------------------------------------------------------------------
\* C27  Direction round trip: once setDirection(d) has written its value to
\* the device (forward for counter-clockwise, reverse for clockwise) and a
\* later poll has read that value back, the direction get handler returns d.
DirectionRoundTrip ==
    /\ dirWritten # "" =>
          dirWritten = (IF dirInput = "COUNTER_CLOCKWISE" THEN "forward" ELSE "reverse")
    /\ state.isValid =>
          /\ dirWritten # ""
          /\ state.fanRotationClockwise = (dirInput = "CLOCKWISE")
    /\ (ret.op = "RotationDirection" /\ ret.status = "value") => ret.val = dirInput

\* Counter-clockwise was written as forward and read back, and the get
\* handler returned it.
DirectionRoundTripWitness ==
    /\ dirInput = "COUNTER_CLOCKWISE" /\ dirWritten = "forward"
    /\ lastPoll = "ok" /\ state.isValid
    /\ ret = [op |-> "RotationDirection", status |-> "value", val |-> "COUNTER_CLOCKWISE"]

\* ---------------------------------------------------------------------------
\* C25  Timeout wrapper outcome: waitForPromiseWithTimeout(op, ms) yields
\* op's result if op resolves before the deadline, op's own error if op
\* rejects before the deadline, and the timeout error if the deadline comes
\* first; the outcome is settled once, by whichever of op and the timer comes
\* first, and a later settlement changes nothing.
RaceOutcomeStep ==
    /\ \A v \in Settlements :
          (PromiseSettles(v) /\ raceTimer = "pending") => raceOutcome' = v
    /\ (RaceTimerFires /\ racePromise.status = "pending") =>
          raceOutcome' = TimeoutError(raceMs)
    /\ raceOutcome.status # "pending" => raceOutcome' = raceOutcome
RaceOutcome ==
    /\ [](/\ (raceOutcome.status = "pending") =
                 (racePromise.status = "pending" /\ raceTimer = "pending")
          /\ raceClock < raceMs => raceOutcome \in {PendingPromise, racePromise})
    /\ [][RaceOutcomeStep]_vars

\* get() resolved after the read timeout: the caller has the timeout error.
RaceOutcomeWitness ==
    /\ raceMs = getDeviceStatusReadTimeout /\ raceTimer = "fired"
    /\ racePromise = [status |-> "resolved", value |-> "dps"]
    /\ raceOutcome.status = "rejected"
    /\ raceOutcome.value = "Waiting for promise timed out after 1000 ms"

\* ---------------------------------------------------------------------------
\* C31  At most one poll timer is pending at any time: whatever timer fires
\* and get-handler calls meet a read in flight, a newly scheduled poll timer
\* replaces the previous one.
NumPendingPollTimers ==
    (IF getDeviceStatusTimer # 0 THEN 1 ELSE 0) + BagCardinality(strayPollTimers)

OnePollTimer == NumPendingPollTimers <= 1

\* ---------------------------------------------------------------------------
\* C32  Command ordering: commands are written to the device in the order
\* in which their dispatches were issued.  The dispatches alive stand in
\* issue order (the holder first, then the queue), polls between them or
\* not, and set() is called only for a dispatch with no earlier-issued
\* dispatch still alive.
AliveDispatches == SelectSeq(running \o waitingQueue, LAMBDA t : t.kind = "set")

WriteInOrderStep ==
    \A i \in 1 .. Len(running) : SetConnected(i) => running[i].ahead = 0
CommandOrder ==
    /\ [](\A k \in 1 .. Len(AliveDispatches) : AliveDispatches[k].ahead = k - 1)
    /\ [][WriteInOrderStep]_vars

\* The first of two dispatches is being written while the second waits
\* behind a poll that came between them.
CommandOrderWitness ==
    /\ Len(running) = 1 /\ running[1].kind = "set" /\ running[1].pc = "operating"
    /\ running[1].ahead = 0
    /\ Len(waitingQueue) = 2
    /\ waitingQueue[1].kind = "poll"
    /\ waitingQueue[2].kind = "set" /\ waitingQueue[2].ahead = 1

\* ---------------------------------------------------------------------------
\* C33  A command whose dispatch was reported to its caller as a
\* communication failure because the set timeout fired (while it waited for
\* the lock or for connect()) is never written to the device afterwards:
\* set() is not called for a dispatch whose deadline has passed.
NoWriteAfterTimeoutStep ==
    \A i \in 1 .. Len(running) : SetConnected(i) => ~running[i].timedOut
NoWriteAfterTimeout == [][NoWriteAfterTimeoutStep]_vars

\* ---------------------------------------------------------------------------
\* C34  Initial state: until the first successful poll completes the cache
\* is invalid and every get handler fails with the communication failure;
\* until the first poll starts the constructor's timer is pending at the
\* normal period, and the first poll is started by that timer or by a get
\* handler.
\* No read has been stored yet: no poll has ended well and the cache still
\* has the constructor's fields.
NoReadYet == lastPoll # "ok" /\ CacheFields(state) = CacheFields(InitState)
NoPollYet == lastPoll = "none" /\ ~isGetStatusInProgress

InitialStateStep ==
    /\ \A g \in Getters :
          (HandleGet(g) /\ NoReadYet) =>
              ret' = [op |-> g, status |-> Failure, val |-> ""]
    /\ (NoPollYet /\ isGetStatusInProgress') =>
          /\ PollTimerFire \/ \E g \in Getters : HandleGet(g)
          /\ NumPollTasks' = 1
InitiallyInvalid ==
    /\ [](NoReadYet => ~state.isValid)
    /\ [](NoPollYet => /\ getDeviceStatusTimer = getDeviceStatusPeriod
                       /\ strayPollTimers = EmptyBag)
    /\ [][InitialStateStep]_vars

\* The first call of all was a get handler: it failed and started the first
\* poll, which has called connect().
InitiallyInvalidWitness ==
    /\ ret.op \in Getters /\ ret.status = Failure
    /\ lastPoll = "none" /\ isGetStatusInProgress
    /\ Len(running) = 1 /\ IsPollAt(1, {"connecting"})
    /\ getDeviceStatusTimer = 0
    /\ transport = <<"connect">>

\* ---------------------------------------------------------------------------
\* C35  Stale accessory removal: discoverDevices unregisters a restored
\* accessory exactly when no configured device has its UUID; nothing is
\* unregistered before, and the accessory of a configured device never is.
ConfiguredUUIDs == {uuidGenerate(config[k]) : k \in 1 .. Len(config)}

StaleRemoval ==
    /\ ~launched => unregistered = {}
    /\ launched => unregistered = accessories \ ConfiguredUUIDs

\* Of two restored accessories the one still configured was updated and
\* the other one unregistered.
StaleRemovalWitness ==
    /\ launched
    /\ config = <<"a">>
    /\ accessories = {"uuid-a", "uuid-b"}
    /\ updated = <<"uuid-a">> /\ registered = <<>>
    /\ unregistered = {"uuid-b"}

====
